---------------------------- MODULE Spec2Model ----------------------------
(***************************************************************************)
(* Verification model of the unet-amazon-segmentation pipeline:            *)
(*   - train_model        (src/training/training.py)                       *)
(*   - tile_datasets      (src/data/preprocessing.py)                      *)
(*   - split_dataset      (src/data/preprocessing.py)                      *)
(*   - convert_forest_to_binary (src/data/preprocessing.py)                *)
(*   - process_sentinel, process_sentinel_fast (src/data/preprocessing.py) *)
(*   - the preprocessing loop (src/run_image_preprocessing.py)             *)
(*   - run_experiment and the experiment script                            *)
(*     (src/training/experiment.py, src/run_second_experiment.py)          *)
(*   - run_epoch          (src/training/training.py)                       *)
(* Each routine has its own specification (SpecTrain, SpecTile, SpecSplit, *)
(* SpecBinary, SpecAlign, SpecPipe, SpecExp, SpecEpoch) over its own group *)
(* of variables; the variables of the other routines stay at their idle    *)
(* values.                                                                 *)
(***************************************************************************)
EXTENDS Integers, Sequences, FiniteSets, TLC

(***************************************************************************)
(* Bounds of the model                                                     *)
(***************************************************************************)
\* largest epoch budget (the `epochs` argument of train_model) explored
MaxEpochs == 11
\* validation GeneralizedDice scores are drawn from 0..MaxScore
MaxScore == 3
\* rasters are up to MaxTiles whole tiles wide and high (plus a partial tile)
MaxTiles == 2
\* the tile corpus given to split_dataset holds up to MaxFiles tiles
MaxFiles == 5
\* label rasters given to convert_forest_to_binary hold up to MaxPixels pixels
MaxPixels == 3

(***************************************************************************)
(* Program constants                                                       *)
(***************************************************************************)
\* training.py:71   patience = 7
patience == 7
\* preprocessing.py:175   tile_size = 512
tile_size == 512

SetMax(S) == CHOOSE x \in S : \A y \in S : y <= x

VARIABLES
    \* ---- train_model -------------------------------------------------
    pc,                  \* position inside train_model
    epochs,              \* the epoch budget (argument)
    epoch,               \* the loop variable (0-based); -1 while unbound
    model,               \* weights of the live model
    best_dice,           \* training.py:69
    best_model_state,    \* training.py:70 (NoWeights stands for None)
    no_improve,          \* training.py:72
    epoch_times,         \* training.py:73
    epoch_val_metrics,   \* training.py:74
    epoch_train_metrics, \* training.py:75
    val_metrics,         \* result of the validation run_epoch of this epoch
    train_metrics,       \* result of the training run_epoch of this epoch
    accumulators,        \* training.py:78-81: per phase, the passes whose
                         \* predictions the phase's metric objects hold
    checkpoint,          \* content of best_model_<tag>.pth (NoWeights: no file)
    epochs_run,          \* "epochs_run" of the returned dict; -1 before return
    \* history variables (not program state)
    max_val,             \* max of 0.0 and the validation scores of the epochs completed so far
    improved_at,         \* the 1-based epochs whose score was a strict improvement
    \* ---- tile_datasets -----------------------------------------------
    tpc,                 \* position inside tile_datasets
    width, height,       \* size of the raster at sentinel_path
    pwidth, pheight,     \* size of the raster at prodes_path
    tiles_x, tiles_y,    \* preprocessing.py:176-177
    i, j,                \* the loop variables (column, row)
    tile_count,          \* preprocessing.py:178
    images_dir,          \* files under <root_folder>/images
    labels_dir,          \* files under <root_folder>/labels
    visited,             \* history: the grid cells visited, in order
    \* ---- split_dataset -----------------------------------------------
    spc,                 \* position inside split_dataset
    train_ratio, val_ratio, test_ratio,   \* arguments, in units of 1/Unit
    base_present,        \* <base_path>/images and /labels exist
    base_images,         \* entries of <base_path>/images
    base_labels,         \* entries of <base_path>/labels
    out_created,         \* the six directories under output_path exist
    out,                 \* subset -> files of its images and labels directory
    image_files,         \* preprocessing.py:281, shuffled at :285
    train_files, val_files, test_files,   \* preprocessing.py:293-295
    raised,              \* the exception split_dataset raised, "" if none
    \* ---- convert_forest_to_binary ------------------------------------
    bpc,                 \* "input", "once" or "twice" converted
    forest_value,        \* the foreground value (argument)
    label_raster,        \* the raster at input_tiff
    binary_raster,       \* the raster written by the first conversion
    rebinary_raster,     \* the raster written by converting binary_raster
    \* ---- process_sentinel / process_sentinel_fast --------------------
    ppc,                 \* position inside the alignment function
    variant,             \* which of the two functions runs
    input_folder,        \* candidate name -> "absent", "file" or "dir"
    band_paths,          \* band -> resolved name, "None" if unresolved
    opened,              \* the names given to rasterio.open for reading, in order
    output_raster,       \* the file at output_path: "absent", "old" or "written"
    output_before,       \* history: the file at output_path when the call began
    perror,              \* the exception the function raised, "" if none
    \* ---- run_image_preprocessing -------------------------------------
    ipc,                 \* position inside the script's loop body
    folders,             \* list(SENTINEL_IMAGES_FOLDER.glob('*'))
    at,                  \* index in folders of file_folder
    disk,                \* key -> the three rasters under the key's output folder
    handed,              \* the (image, label) pairs tile_datasets was called with
    ierror,              \* the exception that ended the script, "" if none
    \* ---- run_second_experiment / run_experiment ----------------------
    xpc,                 \* position inside the script and run_experiment
    configs,             \* cfg.experiment_configs
    xi,                  \* index in configs of the training loop's config
    experiment_tag,      \* experiment.py:14
    flops, params,       \* experiment.py:20-24
    failed_at,           \* history: per config, the statement of the try block that raised
    train_calls,         \* the calls of train_model made so far, in order
    active,              \* the configs whose train_model call has not returned
    metrics,             \* what train_model returned to run_experiment
    experiment_results,  \* run_second_experiment.py:22
    ckpt_files,          \* the checkpoint files on disk, each with its writer
    ei,                  \* index in configs of the evaluation loop's config
    loaded,              \* the checkpoint files torch.load has read, in order
    xerror,              \* the exception that ended the script, "" if none
    \* ---- run_epoch ---------------------------------------------------
    rpc,                 \* position inside run_epoch
    phase,               \* 'train' or 'val' (argument)
    num_batches,         \* len(loader)
    batch,               \* the number of the batch in progress (1-based)
    scaler_enabled,      \* whether the GradScaler is enabled (CUDA present)
    grads,               \* the state of the parameters' gradients
    weights,             \* the number of optimizer updates applied to the model
    grad_enabled,        \* torch.set_grad_enabled, "unset" before line 17
    training_mode,       \* model.training, "unset" before line 18
    batch_steps,         \* history: the steps done for the batch in progress
    metric_updates,      \* the batches fed to the metric objects
    rerror               \* the exception run_epoch raised, "" if none

trainVars == <<pc, epochs, epoch, model, best_dice, best_model_state, no_improve,
               epoch_times, epoch_val_metrics, epoch_train_metrics, val_metrics,
               train_metrics, accumulators, checkpoint, epochs_run, max_val,
               improved_at>>

tileVars == <<tpc, width, height, pwidth, pheight, tiles_x, tiles_y, i, j,
              tile_count, images_dir, labels_dir, visited>>

splitVars == <<spc, train_ratio, val_ratio, test_ratio, base_present,
               base_images, base_labels, out_created, out, image_files,
               train_files, val_files, test_files, raised>>

binVars == <<bpc, forest_value, label_raster, binary_raster, rebinary_raster>>

alignVars == <<ppc, variant, input_folder, band_paths, opened, output_raster,
               output_before, perror>>

pipeVars == <<ipc, folders, at, disk, handed, ierror>>

expVars == <<xpc, configs, xi, experiment_tag, flops, params, failed_at, train_calls,
             active, metrics, experiment_results, ckpt_files, ei, loaded, xerror>>

epochVars == <<rpc, phase, num_batches, batch, scaler_enabled, grads, weights,
               grad_enabled, training_mode, batch_steps, metric_updates, rerror>>

vars == <<trainVars, tileVars, splitVars, binVars, alignVars, pipeVars, expVars,
          epochVars>>

notTrain == <<tileVars, splitVars, binVars, alignVars, pipeVars, expVars,
            epochVars>>

notTile == <<trainVars, splitVars, binVars, alignVars, pipeVars, expVars,
            epochVars>>

notSplit == <<trainVars, tileVars, binVars, alignVars, pipeVars, expVars,
            epochVars>>

notBinary == <<trainVars, tileVars, splitVars, alignVars, pipeVars, expVars,
            epochVars>>

notAlign == <<trainVars, tileVars, splitVars, binVars, pipeVars, expVars,
            epochVars>>

notPipe == <<trainVars, tileVars, splitVars, binVars, alignVars, expVars,
            epochVars>>

notExp == <<trainVars, tileVars, splitVars, binVars, alignVars, pipeVars,
            epochVars>>

notEpoch == <<trainVars, tileVars, splitVars, binVars, alignVars, pipeVars,
              expVars>>

\* the nodata entry of the profile of a raster that declares no nodata value
NoNodata == -1

NoRaster == [width |-> 0, height |-> 0, count |-> 0, dtype |-> "",
             nodata |-> NoNodata, data |-> <<>>]

Subsets == {"Train", "Validation", "Test"}

EmptyOut == [s \in Subsets |-> [images |-> {}, labels |-> {}]]

TrainIdle ==
    /\ pc = "idle" /\ epochs = 0 /\ epoch = -1
    /\ model = [epoch |-> 0, val |-> 0]
    /\ best_dice = 0 /\ best_model_state = [epoch |-> -1, val |-> -1]
    /\ no_improve = 0 /\ epoch_times = <<>> /\ epoch_val_metrics = <<>>
    /\ epoch_train_metrics = <<>>
    /\ val_metrics = [epoch |-> -1, GeneralizedDice |-> -1, batches |-> {}]
    /\ train_metrics = [epoch |-> -1, batches |-> {}]
    /\ accumulators = [train |-> {}, val |-> {}]
    /\ checkpoint = [epoch |-> -1, val |-> -1]
    /\ epochs_run = -1 /\ max_val = 0 /\ improved_at = {}

TileIdle ==
    /\ tpc = "idle" /\ width = 0 /\ height = 0 /\ pwidth = 0 /\ pheight = 0
    /\ tiles_x = 0 /\ tiles_y = 0 /\ i = 0 /\ j = 0 /\ tile_count = 0
    /\ images_dir = {} /\ labels_dir = {} /\ visited = <<>>

SplitIdle ==
    /\ spc = "idle" /\ train_ratio = 0 /\ val_ratio = 0 /\ test_ratio = 0
    /\ base_present = FALSE /\ base_images = {} /\ base_labels = {}
    /\ out_created = FALSE /\ out = EmptyOut /\ image_files = <<>>
    /\ train_files = <<>> /\ val_files = <<>> /\ test_files = <<>>
    /\ raised = ""

BinaryIdle ==
    /\ bpc = "idle" /\ forest_value = 0 /\ label_raster = NoRaster
    /\ binary_raster = NoRaster /\ rebinary_raster = NoRaster

AlignIdle ==
    /\ ppc = "idle" /\ variant = "" /\ input_folder = <<>> /\ band_paths = <<>>
    /\ opened = <<>> /\ output_raster = "absent" /\ output_before = "absent"
    /\ perror = ""

PipeIdle ==
    /\ ipc = "idle" /\ folders = <<>> /\ at = 0 /\ disk = <<>>
    /\ handed = <<>> /\ ierror = ""

ExpIdle ==
    /\ xpc = "idle" /\ configs = <<>> /\ xi = 0 /\ experiment_tag = <<>>
    /\ flops = "" /\ params = "" /\ failed_at = <<>> /\ train_calls = <<>>
    /\ active = {}
    /\ metrics = <<>> /\ experiment_results = <<>> /\ ckpt_files = {}
    /\ ei = 0
    /\ loaded = <<>> /\ xerror = ""

EpochIdle ==
    /\ rpc = "idle" /\ phase = "" /\ num_batches = 0 /\ batch = 0
    /\ scaler_enabled = FALSE /\ grads = "none" /\ weights = 0
    /\ grad_enabled = "unset" /\ training_mode = "unset" /\ batch_steps = <<>>
    /\ metric_updates = {} /\ rerror = ""

(***************************************************************************)
(* train_model                                                             *)
(*                                                                         *)
(* Weights are identified by the training epoch that produced them (1 for  *)
(* the weights at the end of the first epoch, 0 for the initial weights)   *)
(* together with the GeneralizedDice score the validation loader gives for *)
(* them: validation runs the frozen model, so the score is a function of   *)
(* the weights.  Scores are integers 0..MaxScore standing for the floats.  *)
(***************************************************************************)
Scores == 0..MaxScore

NoWeights == [epoch |-> -1, val |-> -1]

InitWeights == [epoch |-> 0, val |-> 0]

\* deepcopy(model.state_dict()): an owned copy of the current weights
SnapshotStateDict(m) == m

\* faulty variant of save_checkpoint: the file is left as it was
keep_checkpoint(m, file) == file

\* save_checkpoint(model, tag, out_dir): torch.save of the current weights,
\* overwriting the file of this experiment tag
save_checkpoint(m, file) == m

\* faulty variant of Improved: an equal score counts as an improvement
ImprovedOrEqual(score, best) == score >= best

\* faulty variant of Improved: an improvement by a single step is ignored
ImprovedByMore(score, best) == score > best + 1

\* training.py:107   if val_metrics['GeneralizedDice'] > best_dice
Improved(score, best) == score > best

\* faulty variant of ShouldStop: stops one epoch late
ShouldStopLate(n) == n = patience + 1

\* training.py:114   if no_improve == patience: break
ShouldStop(n) == n = patience

\* faulty variant of LoadBest: the snapshot is never loaded back
KeepLast(m, snapshot) == m

\* training.py:124-125   model.load_state_dict(best_model_state) when a
\* snapshot exists

LoadBest(m, snapshot) == IF snapshot # NoWeights THEN snapshot ELSE m

\* {'loss': ..., **metrics} of one phase of epoch e.  The record keeps the epoch
\* it was computed in; the float values of the loss and of the five metrics are
\* not kept in the lists (no branch of train_model reads them back).
MetricsRecord(e) == [epoch |-> e]

\* time.time() - start_time of epoch e
TimeRecord(e) == [epoch |-> e]

\* metrics.py:5-12: the metric objects of a phase, holding no predictions
initialize_metrics == {}

\* training.py:55-56: every batch of the pass of phase ph in epoch e is fed to
\* the metric objects handed to run_epoch
UpdateMetrics(acc, ph, e) == acc \cup {<<ph, e>>}

\* faulty variant of reset_metrics: the metric objects keep their state
reset_nothing(metrics_dict) == metrics_dict

\* metrics.py:14-18
reset_metrics(metrics_dict) == [name \in DOMAIN metrics_dict |-> {}]

TrainInit ==
    /\ pc = "for"
    /\ epochs \in 0..MaxEpochs
    /\ epoch = -1
    /\ model = InitWeights
    /\ best_dice = 0
    /\ best_model_state = NoWeights
    /\ no_improve = 0
    /\ epoch_times = <<>>
    /\ epoch_val_metrics = <<>>
    /\ epoch_train_metrics = <<>>
    /\ val_metrics = [epoch |-> -1, GeneralizedDice |-> -1, batches |-> {}]
    /\ train_metrics = [epoch |-> -1, batches |-> {}]
    /\ accumulators = [train |-> initialize_metrics, val |-> initialize_metrics]
    /\ checkpoint = NoWeights
    /\ epochs_run = -1
    /\ max_val = 0
    /\ improved_at = {}
    /\ TileIdle
    /\ SplitIdle
    /\ BinaryIdle
    /\ AlignIdle
    /\ PipeIdle
    /\ ExpIdle
    /\ EpochIdle

\* for epoch in range(epochs): bind the next index or leave the loop
ForNext ==
    /\ pc = "for"
    /\ IF epoch + 1 < epochs
       THEN /\ epoch' = epoch + 1
            /\ pc' = "train"
       ELSE /\ epoch' = epoch
            /\ pc' = "exit"
    /\ UNCHANGED <<epochs, model, best_dice, best_model_state, no_improve,
                   epoch_times, epoch_val_metrics, epoch_train_metrics,
                   val_metrics, train_metrics, accumulators, checkpoint,
                   epochs_run, max_val, improved_at, notTrain>>

\* training.py:88-92: the training pass updates the weights in place
TrainPhase ==
    /\ pc = "train"
    /\ \E s \in Scores : model' = [epoch |-> epoch + 1, val |-> s]
    /\ accumulators' = [accumulators EXCEPT
                            !.train = UpdateMetrics(@, "train", epoch)]
    /\ train_metrics' = [epoch |-> epoch, batches |-> accumulators'.train]
    /\ pc' = "val"
    /\ UNCHANGED <<epochs, epoch, best_dice, best_model_state, no_improve,
                   epoch_times, epoch_val_metrics, epoch_train_metrics,
                   val_metrics, checkpoint, epochs_run, max_val, improved_at, notTrain>>

\* training.py:95-99: the validation pass leaves the weights alone
ValPhase ==
    /\ pc = "val"
    /\ accumulators' = [accumulators EXCEPT !.val = UpdateMetrics(@, "val", epoch)]
    /\ val_metrics' = [epoch |-> epoch, GeneralizedDice |-> model.val,
                       batches |-> accumulators'.val]
    /\ pc' = "check"
    /\ UNCHANGED <<epochs, epoch, model, best_dice, best_model_state, no_improve,
                   epoch_times, epoch_val_metrics, epoch_train_metrics,
                   train_metrics, checkpoint, epochs_run, max_val, improved_at,
                   notTrain>>

\* training.py:101-121: logging, checkpointing, early stopping, bookkeeping
EndOfEpoch ==
    /\ pc = "check"
    /\ epoch_val_metrics' = Append(epoch_val_metrics, MetricsRecord(epoch))
    /\ epoch_train_metrics' = Append(epoch_train_metrics, MetricsRecord(epoch))
    /\ max_val' = IF val_metrics.GeneralizedDice > max_val
                  THEN val_metrics.GeneralizedDice ELSE max_val
    /\ improved_at' = IF val_metrics.GeneralizedDice > max_val
                      THEN improved_at \cup {epoch + 1} ELSE improved_at
    /\ IF Improved(val_metrics.GeneralizedDice, best_dice)
       THEN /\ best_dice' = val_metrics.GeneralizedDice
            /\ best_model_state' = SnapshotStateDict(model)
            /\ checkpoint' = save_checkpoint(model, checkpoint)
            /\ no_improve' = 0
            /\ epoch_times' = Append(epoch_times, TimeRecord(epoch))
            /\ accumulators' = reset_metrics(accumulators)
            /\ pc' = "for"
       ELSE /\ no_improve' = no_improve + 1
            /\ UNCHANGED <<best_dice, best_model_state, checkpoint>>
            /\ IF ShouldStop(no_improve + 1)
               THEN /\ pc' = "exit"                       \* break
                    /\ epoch_times' = epoch_times
                    /\ accumulators' = accumulators
               ELSE /\ pc' = "for"
                    /\ epoch_times' = Append(epoch_times, TimeRecord(epoch))
                    /\ accumulators' = reset_metrics(accumulators)
    /\ UNCHANGED <<epochs, epoch, model, val_metrics, train_metrics, epochs_run,
                   notTrain>>

\* training.py:123-137: restore the best weights and build the result
Return ==
    /\ pc = "exit"
    /\ model' = LoadBest(model, best_model_state)
    /\ IF Len(epoch_times) = 0
       THEN /\ pc' = "error"          \* sum(epoch_times)/len(epoch_times)
            /\ epochs_run' = epochs_run
       ELSE /\ pc' = "done"
            /\ epochs_run' = epoch + 1
    /\ UNCHANGED <<epochs, epoch, best_dice, best_model_state, no_improve,
                   epoch_times, epoch_val_metrics, epoch_train_metrics,
                   val_metrics, train_metrics, accumulators, checkpoint, max_val,
                   improved_at, notTrain>>

TrainNext == ForNext \/ TrainPhase \/ ValPhase \/ EndOfEpoch \/ Return

SpecTrain == TrainInit /\ [][TrainNext]_vars

(***************************************************************************)
(* Properties of train_model                                               *)
(***************************************************************************)
\* the last epoch (1-based) that improved on every earlier score; 0 if none
LastImproved == SetMax(improved_at \cup {0})

Left == pc \in {"exit", "done", "error"}

\* C1: the loop is left right after the epoch in which the non-improvement
\* counter reaches 7 and no further epoch is started: the counter never passes
\* 7, an epoch is only in progress while it is below 7, a run that returns
\* after an early stop ran exactly 7 epochs past its last improving epoch, a
\* run that returns with the counter below 7 used its whole budget, and a run
\* whose improving epochs are exactly 1, 2, 3 under a budget of at least 10
\* returns after exactly 10 epochs.
C1_EarlyStop ==
    /\ no_improve <= patience
    /\ (no_improve = patience => Left)
    /\ (pc = "done" /\ no_improve = patience
            => epochs_run = LastImproved + patience)
    /\ (pc = "done" /\ no_improve < patience => epochs_run = epochs)
    /\ (pc = "done" /\ improved_at = {1, 2, 3} /\ epochs >= 3 + patience
            => epochs_run = 3 + patience)

\* a returned run that improved in epochs 1, 2, 3, then did not improve for 7
\* epochs and stopped with budget left
C1_Witness ==
    /\ pc = "done"
    /\ improved_at = {1, 2, 3}
    /\ epochs > 3 + patience
    /\ epochs_run = 3 + patience
    /\ no_improve = patience

\* C2: when train_model returns, the live model holds weights of an epoch of
\* this run whose validation score is the best score of the run (the weights
\* snapshotted at the last strict improvement when there was one), never the
\* weights of a later, worse-scoring epoch.
C2_BestRestored ==
    pc = "done" =>
        /\ model.epoch \in 1..epochs_run
        /\ model.val = max_val
        /\ (improved_at # {} => model.epoch = LastImproved)

\* a returned run whose last epoch scored worse than the restored weights
C2_Witness ==
    /\ pc = "done"
    /\ model.epoch < epochs_run
    /\ val_metrics.GeneralizedDice < model.val
    /\ val_metrics.epoch = epochs_run - 1

\* C3: at the end of an epoch, a validation score strictly above the best
\* score of the earlier epochs (and above the initial 0.0) overwrites the
\* checkpoint with the current weights and resets the counter to 0; any other
\* score, an equal one included, leaves the checkpoint file as it was and
\* adds exactly 1 to the counter.
C3_CheckpointRule ==
    [][pc = "check" =>
         IF val_metrics.GeneralizedDice > max_val
         THEN checkpoint' = model /\ no_improve' = 0
         ELSE checkpoint' = checkpoint /\ no_improve' = no_improve + 1]_vars

\* an epoch whose score equalled the best one has just been counted as a
\* non-improvement, the checkpoint of epoch 1 still in place
C3_Witness ==
    /\ pc = "for"
    /\ epoch = 1
    /\ val_metrics.GeneralizedDice = best_dice
    /\ best_dice > 0
    /\ no_improve = 1
    /\ checkpoint.epoch = 1

EpochOrdered(list) == \A k \in 1..Len(list) : list[k].epoch = k - 1

\* C4: when train_model returns, epoch_times and the two metric lists each
\* hold exactly one entry per epoch run, entry k belonging to epoch k.
C4_OneEntryPerEpoch ==
    pc = "done" =>
        /\ epochs_run <= epochs
        /\ Len(epoch_times) = epochs_run
        /\ Len(epoch_val_metrics) = epochs_run
        /\ Len(epoch_train_metrics) = epochs_run
        /\ EpochOrdered(epoch_times)
        /\ EpochOrdered(epoch_val_metrics)
        /\ EpochOrdered(epoch_train_metrics)

(***************************************************************************)
(* tile_datasets                                                           *)
(*                                                                         *)
(* A raster is known by its width and height; a written tile by its file   *)
(* name, the shape of the array written, the grid cell it was read at and  *)
(* the pixel origin of its window (which fixes its geotransform).          *)
(***************************************************************************)
\* raster sizes explored: whole tiles, one pixel more, one pixel less
Dims == {n \in 0..(MaxTiles * tile_size + 1) :
            n % tile_size \in {0, 1, tile_size - 1}}

Min(a, b) == IF a <= b THEN a ELSE b

Clamp0(n) == IF n < 0 THEN 0 ELSE n

\* src.read(window=Window(x_off, y_off, tile_size, tile_size)) on a raster of
\* w x h pixels: the window is cut at the raster edge (boundless=False), so
\* the array read has the shape of the intersection, <<rows, cols>>
ReadShape(w, h, x_off, y_off) ==
    <<Clamp0(Min(tile_size, h - y_off)), Clamp0(Min(tile_size, w - x_off))>>

\* preprocessing.py:176-177   width // tile_size
TilesPer(extent) == extent \div tile_size

\* faulty variant of Incomplete: short reads are not detected
NeverIncomplete(sentinel_shape, prodes_shape) == FALSE

\* preprocessing.py:191-192   either array is not tile_size x tile_size
Incomplete(sentinel_shape, prodes_shape) ==
    \/ sentinel_shape # <<tile_size, tile_size>>
    \/ prodes_shape # <<tile_size, tile_size>>

\* decimal digits of n, most significant first
RECURSIVE Digits(_)
Digits(n) == IF n < 10 THEN <<n>> ELSE Append(Digits(n \div 10), n % 10)

\* f"{n:03d}": zero-padded to at least three digits
Format03d(n) ==
    LET d == Digits(n)
    IN  IF Len(d) >= 3 THEN d ELSE [k \in 1..(3 - Len(d)) |-> 0] \o d

\* preprocessing.py:199   f"{prefix}_{tile_count:03d}.tif"
TileName(n) == <<"prefix", "_">> \o Format03d(n) \o <<".tif">>

\* rasterio.open(path, 'w', ...) + dst.write: creates or replaces the file
WriteFile(dir, f) == {g \in dir : g.name # f.name} \cup {f}

\* faulty variant of NextCell: the two loops nested the other way round
ColumnMajorNext(ci, cj, tx, ty) ==
    IF cj + 1 < ty THEN <<ci, cj + 1>>
    ELSE IF ci + 1 < tx THEN <<ci + 1, 0>> ELSE <<0, ty>>

\* preprocessing.py:180-181   for j in range(tiles_y): for i in range(tiles_x)
\* the cell after (i, j); row tiles_y marks the end of the loops
NextCell(ci, cj, tx, ty) ==
    IF ci + 1 < tx THEN <<ci + 1, cj>> ELSE <<0, cj + 1>>

TileInit ==
    /\ tpc = "open"
    /\ width \in Dims /\ height \in Dims
    /\ pwidth \in Dims /\ pheight \in Dims
    /\ tiles_x = 0 /\ tiles_y = 0 /\ i = 0 /\ j = 0 /\ tile_count = 0
    /\ images_dir = {} /\ labels_dir = {} /\ visited = <<>>
    /\ TrainIdle
    /\ SplitIdle
    /\ BinaryIdle
    /\ AlignIdle
    /\ PipeIdle
    /\ ExpIdle
    /\ EpochIdle

\* preprocessing.py:165-178: make the directories, open both rasters, size
\* the grid
OpenRasters ==
    /\ tpc = "open"
    /\ tiles_x' = TilesPer(width)
    /\ tiles_y' = TilesPer(height)
    /\ tile_count' = 0
    /\ i' = 0
    \* with no column the inner loop is empty in every row: no cell is visited
    /\ j' = IF TilesPer(width) = 0 THEN TilesPer(height) ELSE 0
    /\ tpc' = "loop"
    /\ UNCHANGED <<width, height, pwidth, pheight, images_dir, labels_dir,
                   visited, notTile>>

\* preprocessing.py:182-220: one pass of the inner loop body
TileCell ==
    /\ tpc = "loop"
    /\ j < tiles_y
    /\ LET x_off == i * tile_size
           y_off == j * tile_size
           sentinel_shape == ReadShape(width, height, x_off, y_off)
           prodes_shape == ReadShape(pwidth, pheight, x_off, y_off)
           tile_name == TileName(tile_count)
           next == NextCell(i, j, tiles_x, tiles_y)
       IN  /\ visited' = Append(visited, <<j, i>>)
           /\ i' = next[1]
           /\ j' = next[2]
           /\ IF Incomplete(sentinel_shape, prodes_shape)
              THEN UNCHANGED <<images_dir, labels_dir, tile_count>>  \* continue
              ELSE /\ images_dir' = WriteFile(images_dir,
                          [name |-> tile_name, shape |-> sentinel_shape,
                           cell |-> <<i, j>>, origin |-> <<x_off, y_off>>])
                   /\ labels_dir' = WriteFile(labels_dir,
                          [name |-> tile_name, shape |-> prodes_shape,
                           cell |-> <<i, j>>, origin |-> <<x_off, y_off>>])
                   /\ tile_count' = tile_count + 1
    /\ UNCHANGED <<tpc, width, height, pwidth, pheight, tiles_x, tiles_y,
                   notTile>>

\* both loops are exhausted: the rasters are closed and the function returns
CloseRasters ==
    /\ tpc = "loop"
    /\ j >= tiles_y
    /\ tpc' = "closed"
    /\ UNCHANGED <<width, height, pwidth, pheight, tiles_x, tiles_y, i, j,
                   tile_count, images_dir, labels_dir, visited, notTile>>

TileNext == OpenRasters \/ TileCell \/ CloseRasters

SpecTile == TileInit /\ [][TileNext]_vars

(***************************************************************************)
(* Properties of tile_datasets                                             *)
(***************************************************************************)
Aligned == pwidth = width /\ pheight = height

FullTile(f) == f.shape = <<tile_size, tile_size>>

\* the window the file was read through lies inside a w x h raster
WindowInside(f, w, h) ==
    /\ f.origin[1] + tile_size <= w
    /\ f.origin[2] + tile_size <= h

\* C5: every image tile and label tile written has exactly 512 x 512 pixels,
\* none was read through a window cut at the edge of the image raster or of
\* the label raster, and for an aligned pair of W x H rasters the run ends
\* with exactly floor(W/512) * floor(H/512) tile pairs.
C5_TileCount ==
    /\ \A f \in images_dir :
          FullTile(f) /\ WindowInside(f, width, height)
                      /\ WindowInside(f, pwidth, pheight)
    /\ \A f \in labels_dir :
          FullTile(f) /\ WindowInside(f, width, height)
                      /\ WindowInside(f, pwidth, pheight)
    /\ (tpc = "closed" /\ Aligned =>
          /\ tile_count = (width \div tile_size) * (height \div tile_size)
          /\ Cardinality(images_dir) = tile_count
          /\ Cardinality(labels_dir) = tile_count)

\* a finished run over an aligned 1025 x 1023 pair: two whole columns, one
\* whole row, the partial column and the partial row dropped
C5_Witness ==
    /\ tpc = "closed"
    /\ Aligned
    /\ width = 2 * tile_size + 1
    /\ height = 2 * tile_size - 1
    /\ tile_count = 2
    /\ Cardinality(images_dir) = 2

Names(dir) == {f.name : f \in dir}

CellOf(dir, name) == (CHOOSE f \in dir : f.name = name).cell

\* position of a cell in row-major order
RowMajorIndex(cell) == cell[2] * tiles_x + cell[1]

\* C6: the grid cells are visited row by row (the k-th cell visited is column
\* k mod tiles_x of row k div tiles_x), the tiles written are numbered
\* 0, 1, 2, ... without gaps in the order of their cells, and the image tile
\* and the label tile of a cell carry the same file name (prefix, "_", the
\* index padded to three digits, ".tif") in the images and labels directory.
C6_RowMajorNumbering ==
    /\ \A k \in 1..Len(visited) :
          visited[k] = <<(k - 1) \div tiles_x, (k - 1) % tiles_x>>
    /\ Names(images_dir) = {TileName(n) : n \in 0..(tile_count - 1)}
    /\ Names(labels_dir) = Names(images_dir)
    /\ Cardinality(images_dir) = tile_count
    /\ Cardinality(labels_dir) = tile_count
    /\ \A n \in 0..(tile_count - 1) :
          /\ CellOf(images_dir, TileName(n)) = CellOf(labels_dir, TileName(n))
          /\ Len(TileName(n)) >= 6
          /\ \A m \in 0..(n - 1) :
                RowMajorIndex(CellOf(images_dir, TileName(m)))
                    < RowMajorIndex(CellOf(images_dir, TileName(n)))

\* a finished 2 x 2 grid: the tile numbered 2 ("prefix_002.tif") is the first
\* cell of the second row, in both directories
C6_Witness ==
    /\ tpc = "closed"
    /\ tiles_x = 2 /\ tiles_y = 2
    /\ tile_count = 4
    /\ visited = << <<0, 0>>, <<0, 1>>, <<1, 0>>, <<1, 1>> >>
    /\ TileName(2) = <<"prefix", "_", 0, 0, 2, ".tif">>
    /\ CellOf(images_dir, TileName(2)) = <<0, 1>>
    /\ CellOf(labels_dir, TileName(2)) = <<0, 1>>

(***************************************************************************)
(* IEEE-754 double arithmetic, as far as split_dataset uses it             *)
(*                                                                         *)
(* The ratios are Python floats.  A non-negative double below 2^14 is held *)
(* exactly as a sequence of NLimbs limbs of LimbBits bits, least           *)
(* significant first, the first FracLimbs of them after the binary point;  *)
(* a ratio literal is given in units of 1/Unit.  Every operation computes  *)
(* the exact result and rounds it to 53 significant bits, ties to even.    *)
(***************************************************************************)
Unit == 10000000
LimbBits == 7
FracLimbs == 11
IntLimbs == 2
MantissaBits == 53

RECURSIVE Pow2(_)
Pow2(k) == IF k = 0 THEN 1 ELSE 2 * Pow2(k - 1)

Base == Pow2(LimbBits)
NLimbs == FracLimbs + IntLimbs
NBits == NLimbs * LimbBits

\* bit k (1 = least significant) of a
Bit(a, k) == (a[(k - 1) \div LimbBits + 1] \div Pow2((k - 1) % LimbBits)) % 2

\* index of the leading 1 bit; 0 for zero
TopBit(a) == SetMax({k \in 1..NBits : Bit(a, k) = 1} \cup {0})

RECURSIVE AddFrom(_, _, _, _)
AddFrom(a, b, k, carry) ==
    IF k > NLimbs THEN <<>>
    ELSE LET t == a[k] + b[k] + carry
         IN  <<t % Base>> \o AddFrom(a, b, k + 1, t \div Base)

\* exact a + b
FixAdd(a, b) == AddFrom(a, b, 1, 0)

RECURSIVE SubFrom(_, _, _, _)
SubFrom(a, b, k, borrow) ==
    IF k > NLimbs THEN <<>>
    ELSE LET t == a[k] - b[k] - borrow
         IN  <<t % Base>> \o SubFrom(a, b, k + 1, IF t < 0 THEN 1 ELSE 0)

\* a < b
FixLess(a, b) ==
    LET d == {k \in 1..NLimbs : a[k] # b[k]}
    IN  d # {} /\ a[SetMax(d)] < b[SetMax(d)]

\* exact |a - b|
FixAbsDiff(a, b) ==
    IF FixLess(a, b) THEN SubFrom(b, a, 1, 0) ELSE SubFrom(a, b, 1, 0)

RECURSIVE MulFrom(_, _, _, _)
MulFrom(a, n, k, carry) ==
    IF k > NLimbs THEN <<>>
    ELSE LET t == a[k] * n + carry
         IN  <<t % Base>> \o MulFrom(a, n, k + 1, t \div Base)

\* exact n * a for an integer n >= 0
FixMulInt(n, a) == MulFrom(a, n, 1, 0)

\* a with the bits below bit `low` cleared
ClearBelow(a, low) ==
    [k \in 1..NLimbs |->
        LET first == (k - 1) * LimbBits + 1      \* lowest bit of limb k
        IN  IF first >= low THEN a[k]
            ELSE IF first + LimbBits <= low THEN 0
            ELSE (a[k] \div Pow2(low - first)) * Pow2(low - first)]

\* the value of bit `low` alone
OneBit(low) ==
    [k \in 1..NLimbs |->
        IF (low - 1) \div LimbBits + 1 = k THEN Pow2((low - 1) % LimbBits) ELSE 0]

\* round to nearest double, ties to even; `inexact` tells that the exact value
\* lies strictly above a (by less than the weight of bit 1)
RoundDouble(a, inexact) ==
    LET low == TopBit(a) - (MantissaBits - 1)      \* last bit kept
    IN  IF low <= 1 THEN a
        ELSE LET sticky == inexact \/ \E k \in 1..(low - 2) : Bit(a, k) = 1
                 up == Bit(a, low - 1) = 1 /\ (sticky \/ Bit(a, low) = 1)
             IN  IF up THEN FixAdd(ClearBelow(a, low), OneBit(low))
                 ELSE ClearBelow(a, low)

\* the integer n as a double
FloatOfInt(n) ==
    [k \in 1..NLimbs |->
        IF k > FracLimbs THEN (n \div Pow2((k - FracLimbs - 1) * LimbBits)) % Base
        ELSE 0]

\* remainders of the long division of r by Unit, one per limb after the point
RECURSIVE Remainders(_, _)
Remainders(r, m) ==
    IF m = 0 THEN <<>> ELSE <<r>> \o Remainders((r * Base) % Unit, m - 1)

\* the double that the decimal literal d/Unit denotes (d >= 0): 0.7 is 7000000
FloatOfDecimal(d) ==
    LET rem == Remainders(d % Unit, FracLimbs + 1)
        whole == FloatOfInt(d \div Unit)
        exact == [k \in 1..NLimbs |->
                    IF k > FracLimbs THEN whole[k]
                    ELSE (rem[FracLimbs - k + 1] * Base) \div Unit]
    IN  RoundDouble(exact, rem[FracLimbs + 1] # 0)

\* a + b on doubles
FloatAdd(a, b) == RoundDouble(FixAdd(a, b), FALSE)

\* abs(a - b) on doubles
FloatAbsDiff(a, b) == RoundDouble(FixAbsDiff(a, b), FALSE)

\* n * a for an int n and a double a
FloatMulInt(n, a) == RoundDouble(FixMulInt(n, a), FALSE)

\* int(a) for a double a >= 0: truncation
IntOfFloat(a) == a[FracLimbs + 1] + Base * a[FracLimbs + 2]

(***************************************************************************)
(* split_dataset                                                           *)
(*                                                                         *)
(* A directory entry has a name (stem and extension), is a regular file or *)
(* not, and carries data that tells where it came from.                    *)
(***************************************************************************)
Entry(kind, stem, ext, isfile) ==
    [name |-> <<stem, ext>>, isfile |-> isfile, data |-> <<kind, stem>>]

\* what lies in both directories beside the tiles: a text file and a
\* sub-directory whose name ends in .tif
Extras(kind) == {Entry(kind, 0, "txt", TRUE), Entry(kind, -1, "tif", FALSE)}

\* the ratio triples explored, in units of 1/Unit
RatioTriples ==
    { <<8000000, 1500000, 500000>>,      \* the defaults 0.8, 0.15, 0.05
      <<7000000, 1000000, 2000000>>,
      <<5000000, 2500000, 2500000>>,
      <<10000000, 0, 0>>,
      <<8000000, 1500000, 500005>>,      \* sum 1.0000005: within tolerance
      <<8000000, 1500000, 500011>>,      \* sum 1.0000011: outside tolerance
      <<5000000, 5000000, 5000000>>,     \* sum 1.5
      <<12000000, 0, 0>>,                \* a ratio above 1
      <<-1000000, 6000000, 5000000>> }   \* a ratio below 0

\* preprocessing.py:249   every ratio lies in [0, 1].  Parsing a literal into a
\* double is monotone and exact at 0 and 1, so the literals are compared.
RatiosInRange(tr, vr, te) ==
    /\ 0 <= tr /\ tr <= Unit
    /\ 0 <= vr /\ vr <= Unit
    /\ 0 <= te /\ te <= Unit

\* faulty variant of SumIsOne: the sum is not checked
AnySum(tr, vr, te) == TRUE

\* preprocessing.py:251   abs((train_ratio + val_ratio + test_ratio) - 1.0) < 1e-6
SumIsOne(tr, vr, te) ==
    LET sum == FloatAdd(FloatAdd(FloatOfDecimal(tr), FloatOfDecimal(vr)),
                        FloatOfDecimal(te))
    IN  FixLess(FloatAbsDiff(sum, FloatOfInt(1)),
                FloatOfDecimal(Unit \div 1000000))

\* preprocessing.py:289   int(total_files * train_ratio)
TrainSplit(total_files, tr) ==
    IntOfFloat(FloatMulInt(total_files, FloatOfDecimal(tr)))

\* preprocessing.py:290   int(total_files * (train_ratio + val_ratio))
ValSplit(total_files, tr, vr) ==
    IntOfFloat(FloatMulInt(total_files,
                           FloatAdd(FloatOfDecimal(tr), FloatOfDecimal(vr))))

\* faulty variant of PySlice: starts one element late
PySliceSkipFirst(list, lo, hi) ==
    LET a == Min(lo + 1, Len(list))
        b == Min(hi, Len(list))
    IN  IF b <= a THEN <<>> ELSE [k \in 1..(b - a) |-> list[a + k]]

\* list[lo:hi] for 0 <= lo, 0 <= hi: both ends are cut at len(list)
PySlice(list, lo, hi) ==
    LET a == Min(lo, Len(list))
        b == Min(hi, Len(list))
    IN  IF b <= a THEN <<>> ELSE [k \in 1..(b - a) |-> list[a + k]]

\* preprocessing.py:277-278   the names of the regular files ending in .tif
EveryName(dir) == {f.name : f \in dir}

TifFiles(dir) == {f.name : f \in {g \in dir : g.name[2] = "tif" /\ g.isfile}}

\* random.shuffle: every order of the list is possible
RECURSIVE Orders(_)
Orders(S) ==
    IF S = {} THEN {<<>>}
    ELSE UNION {{<<x>> \o rest : rest \in Orders(S \ {x})} : x \in S}

Range(list) == {list[k] : k \in 1..Len(list)}

\* shutil.copy(os.path.join(src, file), os.path.join(dest, file))
Copy(src, dest, file) ==
    LET f == CHOOSE g \in src : g.name = file
    IN  {g \in dest : g.name # file} \cup {f}

RECURSIVE CopyAll(_, _, _)
CopyAll(src, dest, files) ==
    IF files = <<>> THEN dest
    ELSE CopyAll(src, Copy(src, dest, Head(files)), Tail(files))

\* preprocessing.py:298-301   copy_files
copy_files(files, images_src, labels_src, dest) ==
    [images |-> CopyAll(images_src, dest.images, files),
     labels |-> CopyAll(labels_src, dest.labels, files)]

SplitInit ==
    /\ spc = "validate"
    /\ \E r \in RatioTriples :
          train_ratio = r[1] /\ val_ratio = r[2] /\ test_ratio = r[3]
    /\ \E nb \in 0..MaxFiles : \E ni \in 0..(MaxFiles - nb) :
       \E nl \in 0..(MaxFiles - nb - ni) :
          /\ base_present \in (IF nb + ni + nl = 0 THEN BOOLEAN ELSE {TRUE})
          /\ base_images =
                IF base_present
                THEN {Entry("image", k, "tif", TRUE) : k \in 1..(nb + ni)}
                        \cup Extras("image")
                ELSE {}
          /\ base_labels =
                IF base_present
                THEN {Entry("label", k, "tif", TRUE) :
                         k \in (1..nb) \cup ((nb + ni + 1)..(nb + ni + nl))}
                        \cup Extras("label")
                ELSE {}
    /\ out_created = FALSE /\ out = EmptyOut /\ image_files = <<>>
    /\ train_files = <<>> /\ val_files = <<>> /\ test_files = <<>>
    /\ raised = ""
    /\ TrainIdle
    /\ TileIdle
    /\ BinaryIdle
    /\ AlignIdle
    /\ PipeIdle
    /\ ExpIdle
    /\ EpochIdle

\* preprocessing.py:248-252
ValidateRatios ==
    /\ spc = "validate"
    /\ IF ~RatiosInRange(train_ratio, val_ratio, test_ratio)
       THEN spc' = "error" /\ raised' = "ValueError: between 0 and 1"
       ELSE IF ~SumIsOne(train_ratio, val_ratio, test_ratio)
       THEN spc' = "error" /\ raised' = "ValueError: sum must be 1"
       ELSE spc' = "paths" /\ raised' = raised
    /\ UNCHANGED <<train_ratio, val_ratio, test_ratio, base_present, base_images,
                   base_labels, out_created, out, image_files, train_files,
                   val_files, test_files, notSplit>>

\* preprocessing.py:254-266
CheckBasePaths ==
    /\ spc = "paths"
    /\ IF ~base_present
       THEN spc' = "error" /\ raised' = "FileNotFoundError"
       ELSE spc' = "makedirs" /\ raised' = raised
    /\ UNCHANGED <<train_ratio, val_ratio, test_ratio, base_present, base_images,
                   base_labels, out_created, out, image_files, train_files,
                   val_files, test_files, notSplit>>

\* preprocessing.py:268-274
MakeOutputDirs ==
    /\ spc = "makedirs"
    /\ out_created' = TRUE
    /\ spc' = "list"
    /\ UNCHANGED <<train_ratio, val_ratio, test_ratio, base_present, base_images,
                   base_labels, out, image_files, train_files, val_files,
                   test_files, raised, notSplit>>

\* preprocessing.py:276-295: list, pair, shuffle, slice
ListShuffleSlice ==
    /\ spc = "list"
    /\ LET paired == TifFiles(base_images) \cap TifFiles(base_labels)
           total_files == Cardinality(paired)
           train_split == TrainSplit(total_files, train_ratio)
           val_split == ValSplit(total_files, train_ratio, val_ratio)
       IN  \E shuffled \in Orders(paired) :
              /\ image_files' = shuffled
              /\ train_files' = PySlice(shuffled, 0, train_split)
              /\ val_files' = PySlice(shuffled, train_split, val_split)
              /\ test_files' = PySlice(shuffled, val_split, total_files)
    /\ spc' = "copy_train"
    /\ UNCHANGED <<train_ratio, val_ratio, test_ratio, base_present, base_images,
                   base_labels, out_created, out, raised, notSplit>>

\* preprocessing.py:304
CopyTrain ==
    /\ spc = "copy_train"
    /\ out' = [out EXCEPT !["Train"] =
                  copy_files(train_files, base_images, base_labels, @)]
    /\ spc' = "copy_val"
    /\ UNCHANGED <<train_ratio, val_ratio, test_ratio, base_present, base_images,
                   base_labels, out_created, image_files, train_files,
                   val_files, test_files, raised, notSplit>>

\* preprocessing.py:305
CopyValidation ==
    /\ spc = "copy_val"
    /\ out' = [out EXCEPT !["Validation"] =
                  copy_files(val_files, base_images, base_labels, @)]
    /\ spc' = "copy_test"
    /\ UNCHANGED <<train_ratio, val_ratio, test_ratio, base_present, base_images,
                   base_labels, out_created, image_files, train_files,
                   val_files, test_files, raised, notSplit>>

\* preprocessing.py:306-308
CopyTest ==
    /\ spc = "copy_test"
    /\ out' = [out EXCEPT !["Test"] =
                  copy_files(test_files, base_images, base_labels, @)]
    /\ spc' = "done"
    /\ UNCHANGED <<train_ratio, val_ratio, test_ratio, base_present, base_images,
                   base_labels, out_created, image_files, train_files,
                   val_files, test_files, raised, notSplit>>

SplitNext ==
    \/ ValidateRatios \/ CheckBasePaths \/ MakeOutputDirs \/ ListShuffleSlice
    \/ CopyTrain \/ CopyValidation \/ CopyTest

SpecSplit == SplitInit /\ [][SplitNext]_vars

(***************************************************************************)
(* split_dataset called again and again on the same base_path and          *)
(* output_path, as happens when run_image_preprocessing.py is run again.   *)
(* The two base directories and everything under output_path stay as the   *)
(* earlier calls left them.                                                *)
(***************************************************************************)
\* the most names in the corpus, beside the two extra entries
MaxCorpus == 2

\* run_image_preprocessing.py:52   the next call, with ratios of its own
CallAgain ==
    /\ spc = "done"
    /\ \E r \in RatioTriples :
          train_ratio' = r[1] /\ val_ratio' = r[2] /\ test_ratio' = r[3]
    /\ image_files' = <<>>
    /\ train_files' = <<>>
    /\ val_files' = <<>>
    /\ test_files' = <<>>
    /\ spc' = "validate"
    /\ UNCHANGED <<base_present, base_images, base_labels, out_created, out,
                   raised, notSplit>>

ResplitInit ==
    /\ SplitInit
    /\ Cardinality(EveryName(base_images) \cup EveryName(base_labels))
          <= MaxCorpus + Cardinality(EveryName(Extras("image")))

ResplitNext == SplitNext \/ CallAgain

SpecResplit == ResplitInit /\ [][ResplitNext]_vars

(***************************************************************************)
(* Properties of split_dataset                                             *)
(***************************************************************************)
\* the tiles of the corpus: regular .tif files named alike in both directories
Eligible ==
    {n \in EveryName(base_images) \cap EveryName(base_labels) :
        /\ n[2] = "tif"
        /\ \A f \in base_images \cup base_labels : f.name = n => f.isfile}

Sliced == spc \in {"copy_train", "copy_val", "copy_test", "done"}

FilesOf(s) ==
    IF s = "Train" THEN train_files
    ELSE IF s = "Validation" THEN val_files ELSE test_files

\* C7: a run that passes the ratio check splits the eligible corpus exactly:
\* the three lists together hold every eligible file once and nothing else,
\* and when the run is done each subset directory pair holds exactly the
\* files of its list, the image from the images directory and the label of
\* the same name from the labels directory.
C7_ExactPartition ==
    /\ (Sliced =>
          LET all == train_files \o val_files \o test_files
          IN  /\ Range(all) = Eligible
              /\ Len(all) = Cardinality(Eligible)
              /\ Range(image_files) = Eligible)
    /\ (spc = "done" =>
          \A s \in Subsets :
             /\ out[s].images =
                   {Entry("image", n[1], n[2], TRUE) : n \in Range(FilesOf(s))}
             /\ out[s].labels =
                   {Entry("label", n[1], n[2], TRUE) : n \in Range(FilesOf(s))})

\* a finished run with files in each of the three subsets
C7_Witness ==
    /\ spc = "done"
    /\ Cardinality(Eligible) = MaxFiles
    /\ \A s \in Subsets : out[s].images # {} /\ out[s].labels # {}

\* floor(n * ratio) for a ratio given in units of 1/Unit, in exact arithmetic
FloorOfProduct(n, ratio) == (n * ratio) \div Unit

\* C8: of n eligible files, floor(n*train_ratio) go to train,
\* floor(n*(train_ratio+val_ratio)) - floor(n*train_ratio) to validation and
\* the rest to test, whatever the shuffle.
C8_SplitSizes ==
    Sliced =>
        LET n == Cardinality(Eligible)
        IN  /\ Len(train_files) = FloorOfProduct(n, train_ratio)
            /\ Len(val_files) = FloorOfProduct(n, train_ratio + val_ratio)
                                   - FloorOfProduct(n, train_ratio)
            /\ Len(test_files) = n - FloorOfProduct(n, train_ratio + val_ratio)

\* the ratios break the contract: one lies outside [0, 1], or their sum is
\* more than the tolerance 1e-6 away from 1 (exact decimal arithmetic)
RatiosInvalid ==
    \/ \E r \in {train_ratio, val_ratio, test_ratio} : r < 0 \/ r > Unit
    \/ train_ratio + val_ratio + test_ratio - Unit > Unit \div 1000000
    \/ Unit - (train_ratio + val_ratio + test_ratio) > Unit \div 1000000

\* C9: with a ratio outside [0,1], or a sum further than the tolerance from
\* 1, split_dataset raises ValueError straight from the check: it never gets
\* past it, creates no output directory and copies no file.
C9_InvalidRatiosRejected ==
    RatiosInvalid =>
        /\ spc \in {"validate", "error"}
        /\ (spc = "error" => raised \in {"ValueError: between 0 and 1",
                                         "ValueError: sum must be 1"})
        /\ ~out_created
        /\ out = EmptyOut

\* the sum 0.8 + 0.15 + 0.0500011 was rejected with nothing created
C9_Witness ==
    /\ spc = "error"
    /\ raised = "ValueError: sum must be 1"
    /\ train_ratio + val_ratio + test_ratio = Unit + 11
    /\ base_images # {}
    /\ ~out_created

\* the subsets whose images directory, and whose labels directory, hold a
\* file of the given name
SubsetsWithImage(n) == {s \in Subsets : n \in EveryName(out[s].images)}

SubsetsWithLabel(n) == {s \in Subsets : n \in EveryName(out[s].labels)}

\* C21 (as claimed): whenever a call of split_dataset has finished, whatever
\* calls came before it, every eligible file name lies in the images
\* directory of exactly one subset and in the labels directory of that same
\* subset only.
C21_OneSubsetAfterReruns ==
    spc = "done" =>
        \A n \in Eligible :
            /\ Cardinality(SubsetsWithImage(n)) = 1
            /\ SubsetsWithLabel(n) = SubsetsWithImage(n)

(***************************************************************************)
(* convert_forest_to_binary                                                *)
(*                                                                         *)
(* A raster is its profile (width, height, band count, dtype, nodata       *)
(* value) and the pixels of band 1, row by row.  A nodata pixel is a pixel *)
(* that holds the nodata value of the profile.                             *)
(***************************************************************************)
\* class codes seen in a label raster, and the two values of a mask
PixelValues == {0, 100, 200, 255}

\* faulty variant of MaskValue: foreground written as 1
MaskValueOne(pixel, value) == IF pixel = value THEN 1 ELSE 0

\* faulty variant of MaskValue: every class code from the foreground value up
\* is written as foreground
MaskValueFrom(pixel, value) == IF pixel >= value THEN 255 ELSE 0

\* preprocessing.py:233   np.where(img == forest_value, 255, 0)
MaskValue(pixel, value) == IF pixel = value THEN 255 ELSE 0

\* preprocessing.py:228-243: read band 1, build the mask, write it as the
\* single uint8 band of a raster with the profile of the input
convert_forest_to_binary(input, value) ==
    [input EXCEPT !.count = 1,
                  !.dtype = "uint8",
                  !.data = [k \in 1..Len(input.data) |->
                               MaskValue(input.data[k], value)]]

BinaryInit ==
    /\ bpc = "input"
    /\ forest_value \in PixelValues
    /\ \E w \in 1..MaxPixels : \E h \in 1..MaxPixels : \E c \in 1..2 :
          /\ w * h <= MaxPixels
          /\ \E d \in [1..(w * h) -> PixelValues] :
             \E nd \in {NoNodata, 0, 255} :
                label_raster = [width |-> w, height |-> h, count |-> c,
                                dtype |-> "int32", nodata |-> nd, data |-> d]
    /\ binary_raster = NoRaster
    /\ rebinary_raster = NoRaster
    /\ TrainIdle
    /\ TileIdle
    /\ SplitIdle
    /\ AlignIdle
    /\ PipeIdle
    /\ ExpIdle
    /\ EpochIdle

\* convert_forest_to_binary(label, binary, forest_value)
ConvertLabel ==
    /\ bpc = "input"
    /\ binary_raster' = convert_forest_to_binary(label_raster, forest_value)
    /\ bpc' = "once"
    /\ UNCHANGED <<forest_value, label_raster, rebinary_raster, notBinary>>

\* convert_forest_to_binary(binary, rebinary, forest_value)
ConvertAgain ==
    /\ bpc = "once"
    /\ rebinary_raster' = convert_forest_to_binary(binary_raster, forest_value)
    /\ bpc' = "twice"
    /\ UNCHANGED <<forest_value, label_raster, binary_raster, notBinary>>

BinaryNext == ConvertLabel \/ ConvertAgain

SpecBinary == BinaryInit /\ [][BinaryNext]_vars

(***************************************************************************)
(* Properties of convert_forest_to_binary                                  *)
(***************************************************************************)
HasPixel(raster, value) == \E k \in 1..Len(raster.data) : raster.data[k] = value

\* C10 (as claimed): converting the output again with the same foreground
\* value gives the raster of the first conversion.
C10_Idempotent ==
    bpc = "twice" => rebinary_raster = binary_raster

\* C10 (amended): converting the output again with the same foreground value
\* gives the raster of the first conversion exactly when the foreground value
\* is 255, or is not 0 and does not occur in the label raster; for any other
\* non-zero foreground value the second conversion turns every foreground
\* pixel to 0, and for foreground value 0 it inverts the mask.
C10_IdempotentOnlyFor255 ==
    bpc = "twice" =>
        /\ (rebinary_raster = binary_raster) <=>
              \/ forest_value = 255
              \/ forest_value # 0 /\ ~HasPixel(label_raster, forest_value)
        /\ (forest_value \notin {0, 255} => ~HasPixel(rebinary_raster, 255))
        /\ (forest_value = 0 =>
              \A k \in 1..Len(binary_raster.data) :
                  rebinary_raster.data[k] = 255 - binary_raster.data[k])

\* foreground value 255 on a raster with foreground and background pixels:
\* the second conversion reproduced the mask
C10_Witness ==
    /\ bpc = "twice"
    /\ forest_value = 255
    /\ HasPixel(binary_raster, 255)
    /\ HasPixel(binary_raster, 0)
    /\ rebinary_raster = binary_raster

\* C11: the raster convert_forest_to_binary writes has one band of the width
\* and height of its input, holds only the values 0 and 255, and holds 255 at
\* exactly the pixels where the input equals the foreground value; a nodata
\* pixel whose value is not the foreground value becomes 0.
C11_BinaryMask ==
    bpc \in {"once", "twice"} =>
        /\ binary_raster.count = 1
        /\ binary_raster.width = label_raster.width
        /\ binary_raster.height = label_raster.height
        /\ Len(binary_raster.data) = Len(label_raster.data)
        /\ \A k \in 1..Len(label_raster.data) :
              /\ binary_raster.data[k] \in {0, 255}
              /\ binary_raster.data[k] = 255 <=> label_raster.data[k] = forest_value
              /\ (label_raster.data[k] = label_raster.nodata
                    /\ label_raster.nodata # forest_value)
                 => binary_raster.data[k] = 0

\* foreground value 100 on a two-band label raster that holds 0, 100 and 200,
\* with 0 declared as nodata: the mask has been written
C11_Witness ==
    /\ bpc = "once"
    /\ forest_value = 100
    /\ label_raster.count = 2
    /\ label_raster.nodata = 0
    /\ \A v \in {0, 100, 200} : HasPixel(label_raster, v)
    /\ HasPixel(binary_raster, 255)

(***************************************************************************)
(* process_sentinel and process_sentinel_fast                              *)
(*                                                                         *)
(* The input folder is given by what it holds under each candidate name:   *)
(* nothing, a regular file or a directory (os.listdir returns both).  The  *)
(* candidate for band b is a name that ends in _<b>_10m.jp2; one more      *)
(* candidate is a name that matches no band.                               *)
(***************************************************************************)
\* preprocessing.py:16 and :91
bands == <<"B02", "B03", "B04", "B08">>

BandSet == {bands[k] : k \in 1..Len(bands)}

\* a 20 m band file, which ends in none of the four patterns
OtherName == "B8A_20m"

CandidateNames == BandSet \cup {OtherName}

\* preprocessing.py:20 and :97   f.endswith(f'_{band}_10m.jp2')
EndsWithBand(f, band) == f = band

\* preprocessing.py:17-22 and :92-99: the name found for each band, "None" for
\* a band no listed name ends with (process_sentinel leaves the key out)
ResolveBands(folder) ==
    [b \in BandSet |->
        IF \E f \in CandidateNames : folder[f] # "absent" /\ EndsWithBand(f, b)
        THEN CHOOSE f \in CandidateNames : folder[f] # "absent" /\ EndsWithBand(f, b)
        ELSE "None"]

\* faulty variant of MissingBand: raises only when no band at all was found
MissingEveryBand(v, paths) == \A b \in BandSet : paths[b] = "None"

\* preprocessing.py:23   len(band_paths) != 4
\* preprocessing.py:101  any(v is None for v in band_files.values())
MissingBand(v, paths) ==
    IF v = "process_sentinel"
    THEN Cardinality({b \in BandSet : paths[b] # "None"}) # 4
    ELSE \E b \in BandSet : paths[b] = "None"

\* rasterio.open(path) for reading succeeds on a raster file only
Opens(folder, path) == path # "None" /\ folder[path] = "file"

AlignInit ==
    /\ ppc = "resolve"
    /\ variant \in {"process_sentinel", "process_sentinel_fast"}
    /\ input_folder \in [CandidateNames -> {"absent", "file", "dir"}]
    /\ band_paths = [b \in BandSet |-> "None"]
    /\ opened = <<>>
    /\ output_raster \in {"absent", "old"}
    /\ output_before = output_raster
    /\ perror = ""
    /\ TrainIdle
    /\ TileIdle
    /\ SplitIdle
    /\ BinaryIdle
    /\ PipeIdle
    /\ ExpIdle
    /\ EpochIdle

\* preprocessing.py:16-22 and :91-99
LocateBands ==
    /\ ppc = "resolve"
    /\ band_paths' = ResolveBands(input_folder)
    /\ ppc' = "check"
    /\ UNCHANGED <<variant, input_folder, opened, output_raster, output_before,
                   perror, notAlign>>

\* preprocessing.py:23-24 and :101-102
CheckBands ==
    /\ ppc = "check"
    /\ IF MissingBand(variant, band_paths)
       THEN ppc' = "raised" /\ perror' = "ValueError"
       ELSE /\ ppc' = (IF variant = "process_sentinel" THEN "reference" ELSE "bands")
            /\ perror' = perror
    /\ UNCHANGED <<variant, input_folder, band_paths, opened, output_raster,
                   output_before, notAlign>>

\* preprocessing.py:27-41 (process_sentinel only): open the B02 file to take
\* the target grid from it
OpenReference ==
    /\ ppc = "reference"
    /\ opened' = Append(opened, band_paths["B02"])
    /\ IF Opens(input_folder, band_paths["B02"])
       THEN ppc' = "bands" /\ perror' = perror
       ELSE ppc' = "raised" /\ perror' = "RasterioIOError"
    /\ UNCHANGED <<variant, input_folder, band_paths, output_raster,
                   output_before, notAlign>>

\* the bands the band loop has opened so far
BandsDone == Len(opened) - (IF variant = "process_sentinel" THEN 1 ELSE 0)

\* preprocessing.py:45-56 (one iteration) and :105 (one element of the list)
OpenBand ==
    /\ ppc = "bands"
    /\ LET band == bands[BandsDone + 1]
       IN /\ opened' = Append(opened, band_paths[band])
          /\ IF ~Opens(input_folder, band_paths[band])
             THEN ppc' = "raised" /\ perror' = "RasterioIOError"
             ELSE /\ ppc' = (IF BandsDone + 1 = Len(bands) THEN "write" ELSE "bands")
                  /\ perror' = perror
    /\ UNCHANGED <<variant, input_folder, band_paths, output_raster,
                   output_before, notAlign>>

\* preprocessing.py:59-84 and :108-127
WriteOutput ==
    /\ ppc = "write"
    /\ output_raster' = "written"
    /\ ppc' = "done"
    /\ UNCHANGED <<variant, input_folder, band_paths, opened, output_before,
                   perror, notAlign>>

AlignNext == LocateBands \/ CheckBands \/ OpenReference \/ OpenBand \/ WriteOutput

SpecAlign == AlignInit /\ [][AlignNext]_vars

(***************************************************************************)
(* Properties of process_sentinel and process_sentinel_fast                *)
(***************************************************************************)
\* some band has no entry in the folder whose name ends in its pattern
BandLacking == \E b \in BandSet : input_folder[b] = "absent"

\* C12: when the folder has no entry for one of the four bands, either
\* function ends by raising the missing-band ValueError, having opened no
\* raster and written nothing at output_path (which does not exist afterwards
\* unless it did before); and before that it opens and writes nothing.
C12_MissingBandRaisesFirst ==
    BandLacking =>
        /\ opened = <<>>
        /\ output_raster = output_before
        /\ ppc \notin {"reference", "bands", "write", "done"}
        /\ ppc = "raised" => perror = "ValueError"
        /\ ppc \in {"resolve", "check"} => perror = ""

\* B02, B03 and B04 are files, B08 is not there, no file at output_path: the
\* function has raised
C12_Witness ==
    /\ ppc = "raised"
    /\ perror = "ValueError"
    /\ \A b \in {"B02", "B03", "B04"} : input_folder[b] = "file"
    /\ input_folder["B08"] = "absent"
    /\ output_raster = "absent"
    /\ opened = <<>>

(***************************************************************************)
(* run_image_preprocessing: the loop over the Sentinel-2 folders           *)
(*                                                                         *)
(* A georeferenced raster carries, besides the profile entries above, its  *)
(* CRS and its transform.  The pixels of the image raster are left out;    *)
(* the pixels of the label rasters are kept.                               *)
(***************************************************************************)
\* the most folders under SENTINEL_IMAGES_FOLDER
MaxFolders == 2

\* run_image_preprocessing.py:27
FOREST_VALUE == 100

\* the georeference and size a B02 file can have
Grids ==
    {[crs |-> c, transform |-> g[1], width |-> g[2], height |-> g[3]] :
        c \in {"EPSG:32720", "EPSG:32721"}, g \in {<<"T1", 1, 1>>, <<"T2", 1, 2>>}}

\* the raster at PRODES_DATA_PATH, on a grid of its own
ProdesRaster ==
    [width |-> 2, height |-> 2, count |-> 1, dtype |-> "uint8",
     nodata |-> 255, crs |-> "EPSG:4674", transform |-> "TP",
     data |-> <<0, 100, 200, 255>>]

\* a folder with a file for each of the four bands, and one without B08
FullFolder == [f \in CandidateNames |-> IF f \in BandSet THEN "file" ELSE "absent"]

LackingFolder == [FullFolder EXCEPT !["B08"] = "absent"]

\* a raster left under an output folder by an earlier run on other inputs
StaleRaster ==
    [width |-> 2, height |-> 1, count |-> 1, dtype |-> "uint8",
     nodata |-> NoNodata, crs |-> "EPSG:4326", transform |-> "T0",
     data |-> <<0, 255>>]

GeoNoRaster ==
    [width |-> 0, height |-> 0, count |-> 0, dtype |-> "",
     nodata |-> NoNodata, crs |-> "", transform |-> "", data |-> <<>>]

\* run_image_preprocessing.py:37-39   <key>.tif, <key>_PRODES.tif,
\* <key>_PRODES_BINARY.tif
NoOutputs == [sentinel |-> GeoNoRaster, prodes |-> GeoNoRaster, binary |-> GeoNoRaster]

StaleOutputs == [sentinel |-> StaleRaster, prodes |-> StaleRaster, binary |-> StaleRaster]

\* preprocessing.py:108-123: the profile of the B02 dataset with four bands
process_sentinel_fast(grid) ==
    [width |-> grid.width, height |-> grid.height, count |-> 4,
     dtype |-> "uint16", nodata |-> NoNodata, crs |-> grid.crs,
     transform |-> grid.transform, data |-> <<>>]

\* faulty variant of clip_prodes: the label stays on the grid of the PRODES
\* raster
clip_prodes_unwarped(prodes, sentinel, prodes_data) ==
    [prodes EXCEPT !.dtype = "int32", !.nodata = NoNodata]

\* preprocessing.py:133-159: prodes_data is the PRODES band resampled onto the
\* grid of the image raster, written with that grid
clip_prodes(prodes, sentinel, prodes_data) ==
    [width |-> sentinel.width, height |-> sentinel.height, count |-> 1,
     dtype |-> "int32", nodata |-> NoNodata, crs |-> sentinel.crs,
     transform |-> sentinel.transform, data |-> prodes_data]

\* preprocessing.py:140-148: nearest-neighbour resampling fills the
\* destination with class codes of the source, or 0 outside it
Resampled(prodes, w, h) == [1..(w * h) -> {0, FOREST_VALUE}]

PipeInit ==
    /\ ipc = "for"
    /\ \E n \in 0..MaxFolders :
          /\ folders \in [1..n -> [key : 1..n, grid : Grids,
                                   content : {FullFolder, LackingFolder}]]
          /\ \A k \in 1..n : folders[k].key = k
          /\ disk \in {[k \in 1..n |-> NoOutputs], [k \in 1..n |-> StaleOutputs]}
    /\ at = 0
    /\ handed = <<>>
    /\ ierror = ""
    /\ TrainIdle
    /\ TileIdle
    /\ SplitIdle
    /\ BinaryIdle
    /\ AlignIdle
    /\ ExpIdle
    /\ EpochIdle

\* run_image_preprocessing.py:32-39
ForFolder ==
    /\ ipc = "for"
    /\ IF at < Len(folders)
       THEN at' = at + 1 /\ ipc' = "align"
       ELSE at' = at /\ ipc' = "split"
    /\ UNCHANGED <<folders, disk, handed, ierror, notPipe>>

\* run_image_preprocessing.py:43   process_sentinel_fast(file_folder, output_sentinel)
PipeAlign ==
    /\ ipc = "align"
    /\ LET folder == folders[at]
       IN IF MissingBand("process_sentinel_fast", ResolveBands(folder.content))
          THEN /\ ipc' = "aborted"
               /\ ierror' = "ValueError"
               /\ disk' = disk
          ELSE /\ ipc' = "clip"
               /\ ierror' = ierror
               /\ disk' = [disk EXCEPT ![folder.key].sentinel =
                                          process_sentinel_fast(folder.grid)]
    /\ UNCHANGED <<folders, at, handed, notPipe>>

\* run_image_preprocessing.py:46   clip_prodes(PRODES_DATA_PATH, output_sentinel, output_prodes)
PipeClip ==
    /\ ipc = "clip"
    /\ LET key == folders[at].key
           sentinel == disk[key].sentinel
       IN \E prodes_data \in Resampled(ProdesRaster, sentinel.width, sentinel.height) :
             disk' = [disk EXCEPT ![key].prodes =
                                     clip_prodes(ProdesRaster, sentinel, prodes_data)]
    /\ ipc' = "binary"
    /\ UNCHANGED <<folders, at, handed, ierror, notPipe>>

\* run_image_preprocessing.py:47   convert_forest_to_binary(output_prodes,
\* output_prodes_binary, FOREST_VALUE)
PipeBinary ==
    /\ ipc = "binary"
    /\ LET key == folders[at].key
       IN disk' = [disk EXCEPT ![key].binary =
                      convert_forest_to_binary(disk[key].prodes, FOREST_VALUE)]
    /\ ipc' = "tile"
    /\ UNCHANGED <<folders, at, handed, ierror, notPipe>>

\* run_image_preprocessing.py:50   tile_datasets(output_sentinel,
\* output_prodes_binary, TILES_OUTPUT_FOLDER, prefix=key)
PipeTile ==
    /\ ipc = "tile"
    /\ LET key == folders[at].key
       IN handed' = Append(handed, <<disk[key].sentinel, disk[key].binary>>)
    /\ ipc' = "for"
    /\ UNCHANGED <<folders, at, disk, ierror, notPipe>>

\* run_image_preprocessing.py:52   split_dataset(TILES_OUTPUT_FOLDER, DATASET_FOLDER)
PipeSplit ==
    /\ ipc = "split"
    /\ ipc' = "done"
    /\ UNCHANGED <<folders, at, disk, handed, ierror, notPipe>>

PipeNext ==
    ForFolder \/ PipeAlign \/ PipeClip \/ PipeBinary \/ PipeTile \/ PipeSplit

SpecPipe == PipeInit /\ [][PipeNext]_vars

(***************************************************************************)
(* Properties of the preprocessing loop                                    *)
(***************************************************************************)
SameGrid(a, b) ==
    /\ a.width = b.width
    /\ a.height = b.height
    /\ a.transform = b.transform
    /\ a.crs = b.crs

\* C13: once clip_prodes has run for a folder, the label raster it wrote is
\* on the grid (width, height, transform, CRS) of the folder's image raster,
\* and so is the binarized label once it is written; every (image, label)
\* pair tile_datasets was called with is an aligned pair.
C13_PairAligned ==
    /\ ipc \in {"binary", "tile"} =>
          SameGrid(disk[folders[at].key].prodes, disk[folders[at].key].sentinel)
    /\ ipc = "tile" =>
          SameGrid(disk[folders[at].key].binary, disk[folders[at].key].sentinel)
    /\ \A k \in 1..Len(handed) :
          /\ SameGrid(handed[k][2], handed[k][1])
          /\ handed[k][1] = process_sentinel_fast(folders[k].grid)

\* two folders on different grids have been tiled
C13_Witness ==
    /\ Len(handed) = 2
    /\ ~SameGrid(handed[1][1], handed[2][1])
    /\ HasPixel(handed[2][2], 255)

(***************************************************************************)
(* run_second_experiment and run_experiment                                *)
(*                                                                         *)
(* train_model is taken here by its contract: it runs one epoch (the       *)
(* script passes epochs=1) and calls save_checkpoint exactly when the      *)
(* validation score of that epoch exceeds 0.0.                             *)
(***************************************************************************)
\* the most entries of cfg.experiment_configs
MaxConfigs == 2

\* Python's None as the value of a dictionary entry
PyNone == "<None>"

Encoders == {"resnet18", "resnet34"}

\* decoder_attention: a value, None, or "absent" when the key is missing
Attentions == {"scse", PyNone, "absent"}

\* config.py:48-51 and :72: each encoder without decoder attention, written
\* to model_runs_output / <encoder>; and the other forms of decoder_attention
\* for the first encoder
Configs ==
    {[encoder |-> e, decoder_attention |-> a, out_dir |-> <<"results_custom", e>>] :
        e \in Encoders, a \in {PyNone}}
    \cup
    {[encoder |-> "resnet18", decoder_attention |-> a,
      out_dir |-> <<"results_custom", "resnet18">>] : a \in Attentions}

\* config.get('decoder_attention', default)
ConfigGet(config, default) ==
    IF config.decoder_attention = "absent" THEN default ELSE config.decoder_attention

\* how an f-string renders a value
Format(v) == IF v = PyNone THEN "None" ELSE v

\* experiment.py:14
ExperimentTag(config) == <<config.encoder, "_", Format(ConfigGet(config, "none"))>>

\* model.py:17
checkpoint_path(tag, out_dir) ==
    IF out_dir # <<>>
    THEN [dir |-> out_dir, name |-> <<"best_model_">> \o tag \o <<".pth">>]
    ELSE [dir |-> <<>>, name |-> <<"best_model_">> \o tag \o <<".pth">>]

\* run_second_experiment.py:35-36
EvalModelPath(config) ==
    [dir |-> config.out_dir,
     name |-> <<"best_model_">> \o <<config.encoder, "_", "None">> \o <<".pth">>]

\* run_second_experiment.py:18-19
TrainLoader == "train_loader"

ValLoader == "val_loader"

\* the statements of the try block that can raise: building the input (:22),
\* profile (:23), clever_format (:24)
FailurePoints == {"none", "input", "profile", "format"}

\* faulty variant of ComplexityStats: flops and params are not preset
ComplexityStatsUnset(failure) ==
    IF failure \in {"input", "profile"} THEN <<"unbound", "unbound">>
    ELSE IF failure = "format" THEN <<"unformatted", "unformatted">>
    ELSE <<"formatted", "formatted">>

\* experiment.py:20-26: flops and params after the try block
ComplexityStats(failure) ==
    IF failure \in {"input", "profile"} THEN <<"N/A", "N/A">>
    ELSE IF failure = "format" THEN <<"unformatted", "unformatted">>
    ELSE <<"formatted", "formatted">>

\* torch.save(model.state_dict(), path): the file at path is replaced
WriteCheckpoint(fs, path, writer) ==
    {f \in fs : f.path # path} \cup {[path |-> path, writer |-> writer]}

\* faulty variant of AppendResult: newest record first
PrependResult(results, result) == <<result>> \o results

\* run_second_experiment.py:27
AppendResult(results, result) == Append(results, result)

\* checkpoint files an earlier run of the script left (writer 0)
EarlierFiles ==
    {[path |-> EvalModelPath(c), writer |-> 0] : c \in Configs}

\* the validation GeneralizedDice of the single epoch
OneEpochScores == {0, 1}

ExpInit ==
    /\ xpc = "for"
    /\ \E n \in 0..MaxConfigs : configs \in [1..n -> Configs]
    /\ xi = 0
    /\ experiment_tag = <<>>
    /\ flops = ""
    /\ params = ""
    /\ failed_at = <<>>
    /\ train_calls = <<>>
    /\ active = {}
    /\ metrics = <<>>
    /\ experiment_results = <<>>
    /\ ckpt_files \in {{}, EarlierFiles}
    /\ ei = 0
    /\ loaded = <<>>
    /\ xerror = ""
    /\ TrainIdle
    /\ TileIdle
    /\ SplitIdle
    /\ BinaryIdle
    /\ AlignIdle
    /\ PipeIdle
    /\ EpochIdle

\* run_second_experiment.py:24-25
ForConfig ==
    /\ xpc = "for"
    /\ IF xi < Len(configs)
       THEN xi' = xi + 1 /\ xpc' = "get_model"
       ELSE xi' = xi /\ xpc' = "dump"
    /\ UNCHANGED <<configs, experiment_tag, flops, params, failed_at, train_calls,
                   active, metrics, experiment_results, ckpt_files, ei, loaded,
                   xerror, notExp>>

\* experiment.py:13-17
GetModel ==
    /\ xpc = "get_model"
    /\ experiment_tag' = ExperimentTag(configs[xi])
    /\ xpc' = "complexity"
    /\ UNCHANGED <<configs, xi, flops, params, failed_at, train_calls, active,
                   metrics, experiment_results, ckpt_files, ei, loaded, xerror,
                   notExp>>

\* experiment.py:19-29
ComputeComplexity ==
    /\ xpc = "complexity"
    /\ \E failure \in FailurePoints :
          /\ flops' = ComplexityStats(failure)[1]
          /\ params' = ComplexityStats(failure)[2]
          /\ failed_at' = Append(failed_at, failure)
    /\ xpc' = "train"
    /\ UNCHANGED <<configs, xi, experiment_tag, train_calls, active, metrics,
                   experiment_results, ckpt_files, ei, loaded, xerror, notExp>>

\* experiment.py:31-43: train_model is called
StartTraining ==
    /\ xpc = "train"
    /\ train_calls' = Append(train_calls,
                             [config |-> configs[xi], train_loader |-> TrainLoader,
                              val_loader |-> ValLoader, tag |-> experiment_tag,
                              out_dir |-> configs[xi].out_dir])
    /\ active' = active \cup {xi}
    /\ xpc' = "training"
    /\ UNCHANGED <<configs, xi, experiment_tag, flops, params, failed_at, metrics,
                   experiment_results, ckpt_files, ei, loaded, xerror, notExp>>

\* training.py:84-137 with epochs=1: train_model returns
TrainingReturns ==
    /\ xpc = "training"
    /\ \E score \in OneEpochScores :
          /\ metrics' = [best_dice |-> IF Improved(score, 0) THEN score ELSE 0]
          /\ ckpt_files' =
                IF Improved(score, 0)
                THEN WriteCheckpoint(ckpt_files,
                                     checkpoint_path(train_calls[Len(train_calls)].tag,
                                                     train_calls[Len(train_calls)].out_dir),
                                     xi)
                ELSE ckpt_files
    /\ active' = active \ {xi}
    /\ xpc' = "finalize"
    /\ UNCHANGED <<configs, xi, experiment_tag, flops, params, failed_at,
                   train_calls, experiment_results, ei, loaded, xerror, notExp>>

\* experiment.py:45-53 and run_second_experiment.py:26-27
Finalize ==
    /\ xpc = "finalize"
    /\ experiment_results' =
          AppendResult(experiment_results,
                       [best_dice |-> metrics.best_dice, flops |-> flops,
                        params |-> params, config |-> configs[xi],
                        experiment_tag |-> experiment_tag])
    /\ xpc' = "for"
    /\ UNCHANGED <<configs, xi, experiment_tag, flops, params, failed_at,
                   train_calls, active, metrics, ckpt_files, ei, loaded, xerror,
                   notExp>>

\* run_second_experiment.py:30-31
DumpResults ==
    /\ xpc = "dump"
    /\ xpc' = "eval_for"
    /\ UNCHANGED <<configs, xi, experiment_tag, flops, params, failed_at,
                   train_calls, active, metrics, experiment_results, ckpt_files,
                   ei, loaded, xerror, notExp>>

\* run_second_experiment.py:34-39
EvalFor ==
    /\ xpc = "eval_for"
    /\ IF ei < Len(configs)
       THEN ei' = ei + 1 /\ xpc' = "load"
       ELSE ei' = ei /\ xpc' = "done"
    /\ UNCHANGED <<configs, xi, experiment_tag, flops, params, failed_at,
                   train_calls, active, metrics, experiment_results, ckpt_files,
                   loaded, xerror, notExp>>

\* run_second_experiment.py:40   torch.load(model_path)
EvalLoad ==
    /\ xpc = "load"
    /\ LET model_path == EvalModelPath(configs[ei])
       IN IF \E f \in ckpt_files : f.path = model_path
          THEN /\ loaded' = Append(loaded,
                                   [config |-> ei,
                                    file |-> CHOOSE f \in ckpt_files : f.path = model_path])
               /\ xpc' = "evaluate"
               /\ xerror' = xerror
          ELSE /\ loaded' = loaded
               /\ xpc' = "aborted"
               /\ xerror' = "FileNotFoundError"
    /\ UNCHANGED <<configs, xi, experiment_tag, flops, params, failed_at,
                   train_calls, active, metrics, experiment_results, ckpt_files,
                   ei, notExp>>

\* run_second_experiment.py:41-52
EvalModel ==
    /\ xpc = "evaluate"
    /\ xpc' = "eval_for"
    /\ UNCHANGED <<configs, xi, experiment_tag, flops, params, failed_at,
                   train_calls, active, metrics, experiment_results, ckpt_files,
                   ei, loaded, xerror, notExp>>

ExpNext ==
    \/ ForConfig \/ GetModel \/ ComputeComplexity \/ StartTraining
    \/ TrainingReturns \/ Finalize \/ DumpResults \/ EvalFor \/ EvalLoad
    \/ EvalModel

SpecExp == ExpInit /\ [][ExpNext]_vars

(***************************************************************************)
(* Properties of the experiment scripts                                    *)
(***************************************************************************)
TrainingLoopOver == xpc \in {"dump", "eval_for", "load", "evaluate", "done", "aborted"}

\* C14: train_model is called once per configuration, in configuration
\* order, always with the script's two loaders; at most one call is running,
\* and it has returned before the next configuration is taken up; when the
\* training loop is over there is one result record per configuration, in
\* configuration order.
C14_OncePerConfigInOrder ==
    /\ active = (IF xpc = "training" THEN {xi} ELSE {})
    /\ Len(train_calls) = (IF xpc \in {"get_model", "complexity", "train"}
                           THEN xi - 1 ELSE xi)
    /\ \A k \in 1..Len(train_calls) :
          /\ train_calls[k].config = configs[k]
          /\ train_calls[k].train_loader = TrainLoader
          /\ train_calls[k].val_loader = ValLoader
    /\ Len(experiment_results) =
          (IF xpc \in {"get_model", "complexity", "train", "training", "finalize"}
           THEN xi - 1 ELSE xi)
    /\ \A k \in 1..Len(experiment_results) :
          experiment_results[k].config = configs[k]
    /\ TrainingLoopOver => Len(experiment_results) = Len(configs)

\* two different configurations have been trained and the results are about
\* to be written
C14_Witness ==
    /\ xpc = "dump"
    /\ Len(configs) = 2
    /\ configs[1] # configs[2]
    /\ Len(experiment_results) = 2

\* C15 (as claimed): whichever statement of the complexity block raised, the
\* result record of that configuration holds "N/A" for flops and for params.
C15_FailureReportsNA ==
    \A k \in 1..Len(experiment_results) :
        failed_at[k] # "none" =>
            /\ experiment_results[k].flops = "N/A"
            /\ experiment_results[k].params = "N/A"

\* C15 (amended): an exception in the complexity block never ends the
\* experiment: train_model is still called and a result record is returned.
\* The record holds "N/A" for flops and params when building the input or
\* profile() raised; when only clever_format raised it holds the unformatted
\* counts profile() returned.
C15_FailureCaught ==
    /\ xpc \in {"train", "training", "finalize"} => Len(failed_at) = xi
    /\ xpc \in {"training", "finalize"} => Len(train_calls) = Len(failed_at)
    /\ xpc = "for" =>
          Len(experiment_results) = Len(failed_at) /\ Len(train_calls) = Len(failed_at)
    /\ \A k \in 1..Len(experiment_results) :
          /\ failed_at[k] \in {"input", "profile"} =>
                /\ experiment_results[k].flops = "N/A"
                /\ experiment_results[k].params = "N/A"
          /\ failed_at[k] = "format" =>
                /\ experiment_results[k].flops = "unformatted"
                /\ experiment_results[k].params = "unformatted"
          /\ failed_at[k] = "none" =>
                /\ experiment_results[k].flops = "formatted"
                /\ experiment_results[k].params = "formatted"

\* profile() raised for the first configuration; its record and that of a
\* second configuration have been returned
C15_Witness ==
    /\ Len(experiment_results) = 2
    /\ failed_at[1] = "profile"
    /\ experiment_results[1].flops = "N/A"
    /\ Len(train_calls) = 2

\* C20 (as claimed): when the evaluation loop is about to load the checkpoint
\* of a configuration, the path it reads is the path save_checkpoint was
\* given for that configuration, and the file at that path exists and was
\* written by the training of that configuration in this run.
C20_EvalLoadsOwnCheckpoint ==
    xpc = "load" =>
        LET config == configs[ei]
            model_path == EvalModelPath(config)
        IN /\ model_path = checkpoint_path(ExperimentTag(config), config.out_dir)
           /\ \E f \in ckpt_files :
                 /\ f.path = model_path
                 /\ f.writer \in 1..Len(configs)
                 /\ configs[f.writer] = config

(***************************************************************************)
(* Further properties of train_model                                       *)
(***************************************************************************)
\* the epochs whose end-of-epoch bookkeeping is done
EpochsCompleted == IF pc \in {"train", "val", "check"} THEN epoch ELSE epoch + 1

\* C17: the metric objects of the training phase hold nothing when the
\* training pass of an epoch begins, those of the validation phase hold
\* nothing when the validation pass begins, and the metrics record a pass
\* returns for epoch k is computed from the batches of that pass of epoch k
\* alone.
C17_FreshAccumulators ==
    /\ pc = "train" => accumulators.train = {}
    /\ pc \in {"train", "val"} => accumulators.val = {}
    /\ pc \in {"val", "check"} =>
          /\ train_metrics.epoch = epoch
          /\ train_metrics.batches = {<<"train", epoch>>}
    /\ pc = "check" =>
          /\ val_metrics.epoch = epoch
          /\ val_metrics.batches = {<<"val", epoch>>}

\* the validation pass of the third epoch is about to begin
C17_Witness ==
    /\ pc = "val"
    /\ epoch = 2
    /\ accumulators.val = {}
    /\ train_metrics.batches = {<<"train", 2>>}
    /\ Len(epoch_val_metrics) = 2

\* C18: once an epoch has improved, the checkpoint file and the snapshot both
\* hold the weights the model had at the end of the most recent improving
\* epoch, and a training pass, which changes the weights of the live model,
\* changes neither.
C18_SnapshotAndFileAreBest ==
    /\ [](improved_at # {} =>
            /\ best_model_state = [epoch |-> LastImproved, val |-> max_val]
            /\ checkpoint = best_model_state)
    /\ [][pc = "train" =>
            /\ model' # model
            /\ best_model_state' = best_model_state
            /\ checkpoint' = checkpoint]_vars

\* the weights have been updated twice since the second of two improving
\* epochs; file and snapshot are those of that epoch
C18_Witness ==
    /\ pc = "val"
    /\ improved_at = {1, 2}
    /\ model.epoch = 4
    /\ checkpoint.epoch = 2
    /\ best_model_state.epoch = 2

\* C19: best_dice is the maximum of 0.0 and the validation scores of the
\* epochs completed so far and never decreases; no_improve is the number of
\* epochs completed since the last strict improvement (since the start if
\* there was none), and it is below 7 whenever an epoch starts.
C19_BestAndCounter ==
    /\ [](/\ best_dice = max_val
          /\ no_improve = EpochsCompleted - LastImproved
          /\ (pc = "train" => no_improve < patience))
    /\ [][best_dice' >= best_dice]_vars

\* an epoch starts with the counter at 6, after improvements in epochs 1 and 2
C19_Witness ==
    /\ pc = "train"
    /\ improved_at = {1, 2}
    /\ best_dice = 2
    /\ no_improve = patience - 1
    /\ epoch = 8

(***************************************************************************)
(* run_epoch, one statement group per step                                 *)
(*                                                                         *)
(* The gradients of the parameters are "none" before the first backward    *)
(* pass, "scaled" after a backward pass of a scaled loss, "unscaled" once  *)
(* divided by the scale (or when the loss was never scaled), "clipped"     *)
(* after norm clipping of unscaled gradients, "clipped_scaled" after norm  *)
(* clipping of scaled ones, and "zero" after optimizer.zero_grad().        *)
(***************************************************************************)
\* the most batches of a loader
MaxBatches == 3

\* faulty variant of TrainBatchSteps: the gradients are clipped before they
\* are unscaled
TrainBatchStepsClipFirst ==
    <<"forward", "backward", "clip", "unscale", "step", "zero_grad", "metrics">>

\* training.py:25-56, phase == 'train': the statement groups of one batch in
\* program order
TrainBatchSteps ==
    <<"forward", "backward", "unscale", "clip", "step", "zero_grad", "metrics">>

\* training.py:25-56, phase == 'val'
ValBatchSteps == <<"forward", "preds_bin", "metrics">>

BatchSteps(ph) == IF ph = "train" THEN TrainBatchSteps ELSE ValBatchSteps

\* the statement group after `step`; "for" after the last one
StepAfter(ph, step) ==
    LET seq == BatchSteps(ph)
        k == CHOOSE n \in 1..Len(seq) : seq[n] = step
    IN IF k < Len(seq) THEN seq[k + 1] ELSE "for"

EpochInit ==
    /\ rpc = "setup"
    /\ phase \in {"train", "val"}
    /\ num_batches \in 0..MaxBatches
    /\ batch = 0
    /\ scaler_enabled \in BOOLEAN
    /\ grads = "none"
    /\ weights = 0
    /\ grad_enabled = "unset"
    /\ training_mode = "unset"
    /\ batch_steps = <<>>
    /\ metric_updates = {}
    /\ rerror = ""
    /\ TrainIdle
    /\ TileIdle
    /\ SplitIdle
    /\ BinaryIdle
    /\ AlignIdle
    /\ PipeIdle
    /\ ExpIdle

\* training.py:13-18
Setup ==
    /\ rpc = "setup"
    /\ grad_enabled' = (IF phase = "train" THEN "on" ELSE "off")
    /\ training_mode' = (IF phase = "train" THEN "train" ELSE "eval")
    /\ rpc' = "for"
    /\ UNCHANGED <<phase, num_batches, batch, scaler_enabled, grads, weights,
                   batch_steps, metric_updates, rerror, notEpoch>>

\* training.py:20-21   for imgs, masks in pbar
NextBatch ==
    /\ rpc = "for"
    /\ IF batch < num_batches
       THEN /\ batch' = batch + 1
            /\ batch_steps' = <<>>
            /\ rpc' = BatchSteps(phase)[1]
       ELSE /\ batch' = batch
            /\ batch_steps' = batch_steps
            /\ rpc' = "compute"
    /\ UNCHANGED <<phase, num_batches, scaler_enabled, grads, weights,
                   grad_enabled, training_mode, metric_updates, rerror, notEpoch>>

\* training.py:24-26   preds = model(imgs); loss = loss_fn(preds, masks.float())
Forward ==
    /\ rpc = "forward"
    /\ batch_steps' = Append(batch_steps, "forward")
    /\ rpc' = StepAfter(phase, "forward")
    /\ UNCHANGED <<phase, num_batches, batch, scaler_enabled, grads, weights,
                   grad_enabled, training_mode, metric_updates, rerror, notEpoch>>

\* training.py:31   scaler.scale(loss).backward()
Backward ==
    /\ rpc = "backward"
    /\ grads' = (IF scaler_enabled THEN "scaled" ELSE "unscaled")
    /\ batch_steps' = Append(batch_steps, "backward")
    /\ rpc' = StepAfter(phase, "backward")
    /\ UNCHANGED <<phase, num_batches, batch, scaler_enabled, weights,
                   grad_enabled, training_mode, metric_updates, rerror, notEpoch>>

\* training.py:34   scaler.unscale_(optimizer)
Unscale ==
    /\ rpc = "unscale"
    /\ grads' = (IF grads = "scaled" THEN "unscaled" ELSE grads)
    /\ batch_steps' = Append(batch_steps, "unscale")
    /\ rpc' = StepAfter(phase, "unscale")
    /\ UNCHANGED <<phase, num_batches, batch, scaler_enabled, weights,
                   grad_enabled, training_mode, metric_updates, rerror, notEpoch>>

\* training.py:37   torch.nn.utils.clip_grad_norm_(model.parameters(), 1.0)
ClipGradNorm ==
    /\ rpc = "clip"
    /\ grads' = (IF grads = "unscaled" THEN "clipped" ELSE "clipped_scaled")
    /\ batch_steps' = Append(batch_steps, "clip")
    /\ rpc' = StepAfter(phase, "clip")
    /\ UNCHANGED <<phase, num_batches, batch, scaler_enabled, weights,
                   grad_enabled, training_mode, metric_updates, rerror, notEpoch>>

\* training.py:40-41   scaler.step(optimizer); scaler.update().  An enabled
\* scaler leaves optimizer.step() out when it found inf or NaN gradients.
OptimizerStep ==
    /\ rpc = "step"
    /\ \E found_inf \in {FALSE, scaler_enabled} :
          weights' = (IF found_inf THEN weights ELSE weights + 1)
    /\ batch_steps' = Append(batch_steps, "step")
    /\ rpc' = StepAfter(phase, "step")
    /\ UNCHANGED <<phase, num_batches, batch, scaler_enabled, grads,
                   grad_enabled, training_mode, metric_updates, rerror, notEpoch>>

\* training.py:42   optimizer.zero_grad()
ZeroGrad ==
    /\ rpc = "zero_grad"
    /\ grads' = "zero"
    /\ batch_steps' = Append(batch_steps, "zero_grad")
    /\ rpc' = StepAfter(phase, "zero_grad")
    /\ UNCHANGED <<phase, num_batches, batch, scaler_enabled, weights,
                   grad_enabled, training_mode, metric_updates, rerror, notEpoch>>

\* training.py:45-48   preds_bin under torch.no_grad()
PredsBin ==
    /\ rpc = "preds_bin"
    /\ batch_steps' = Append(batch_steps, "preds_bin")
    /\ rpc' = StepAfter(phase, "preds_bin")
    /\ UNCHANGED <<phase, num_batches, batch, scaler_enabled, grads, weights,
                   grad_enabled, training_mode, metric_updates, rerror, notEpoch>>

\* training.py:51-58   loss_total, preds_bin of the training phase, metric.update
FeedMetrics ==
    /\ rpc = "metrics"
    /\ metric_updates' = metric_updates \cup {batch}
    /\ batch_steps' = Append(batch_steps, "metrics")
    /\ rpc' = StepAfter(phase, "metrics")
    /\ UNCHANGED <<phase, num_batches, batch, scaler_enabled, grads, weights,
                   grad_enabled, training_mode, rerror, notEpoch>>

\* training.py:60-63   avg_loss = loss_total / len(loader); metric.compute()
ComputeResults ==
    /\ rpc = "compute"
    /\ IF num_batches = 0
       THEN rpc' = "raised" /\ rerror' = "ZeroDivisionError"
       ELSE rpc' = "returned" /\ rerror' = rerror
    /\ UNCHANGED <<phase, num_batches, batch, scaler_enabled, grads, weights,
                   grad_enabled, training_mode, batch_steps, metric_updates,
                   notEpoch>>

EpochNext ==
    \/ Setup \/ NextBatch \/ Forward \/ Backward \/ Unscale \/ ClipGradNorm
    \/ OptimizerStep \/ ZeroGrad \/ PredsBin \/ FeedMetrics \/ ComputeResults

SpecEpoch == EpochInit /\ [][EpochNext]_vars

(***************************************************************************)
(* Properties of run_epoch                                                 *)
(***************************************************************************)
IsPrefix(a, b) == Len(a) <= Len(b) /\ \A k \in 1..Len(a) : a[k] = b[k]

Done(step) == \E k \in 1..Len(batch_steps) : batch_steps[k] = step

BatchOver == rpc \in {"for", "compute", "returned"} /\ batch > 0

\* C16: in the training phase the steps of a batch are forward and loss,
\* scaled backward, unscale, norm clipping, optimizer step, gradient reset, in
\* this order and all of them for every batch; the gradients that are clipped
\* are unscaled ones, and the optimizer steps on clipped ones.  In the
\* validation phase no batch has a backward pass or an optimizer step, the
\* weights stay as they were and no gradient is produced.
C16_BatchStepOrder ==
    /\ phase = "train" =>
          /\ IsPrefix(batch_steps, <<"forward", "backward", "unscale", "clip",
                                     "step", "zero_grad", "metrics">>)
          /\ BatchOver => Len(batch_steps) = 7
          /\ rpc = "clip" => grads = "unscaled"
          /\ rpc = "step" => grads = "clipped"
          /\ grads # "clipped_scaled"
          /\ BatchOver => grads = "zero"
    /\ phase = "val" =>
          /\ IsPrefix(batch_steps, <<"forward", "preds_bin", "metrics">>)
          /\ BatchOver => Len(batch_steps) = 3
          /\ weights = 0
          /\ grads = "none"
          /\ rpc # "setup" => grad_enabled = "off" /\ training_mode = "eval"

\* the second training batch under an enabled scaler is done, both batches
\* having updated the weights
C16_Witness ==
    /\ phase = "train"
    /\ scaler_enabled
    /\ rpc = "for"
    /\ batch = 2
    /\ weights = 2
    /\ Len(batch_steps) = 7

=============================================================================
